---- MODULE Spec2Model ----
(***************************************************************************)
(* Identity resolution and workshop registration of the summer-school      *)
(* backend, as a state machine over the three store tables the two         *)
(* workflows touch (users, user_workshop, assignments).  Every request is  *)
(* an independent execution; one step of a request is one store call       *)
(* together with the local code up to the next store call, so that         *)
(* concurrent requests interleave exactly at the store round-trips.        *)
(***************************************************************************)
EXTENDS Integers, Sequences, FiniteSets, TLC

\* The entry points modelled: an authenticated request
\* (authenticate_and_create_user / verify_token), the registered-user
\* registration route and the guest registration route.

\* ---------------------------------------------------------------- bounds
\* Total number of requests started in one behaviour.
MaxRequests == 3

\* Total number of reminder-job invocations in one behaviour.
MaxRuns == 2

\* Number of times the clock advances in one behaviour.
MaxTicks == 2

\* ------------------------------------------------------------ input sets
NULL == "null"

\* Request slots: requests that may be in flight at the same time.
Procs == {"r1", "r2"}

Emails == {"a@x.com", "admin@x.com"}

\* Verified tokens the identity provider has issued: (email, sub,
\* user_metadata).  Two accounts of the provider carry the email a@x.com.
Tokens ==
    { [email |-> "a@x.com", sub |-> "sub1",
       meta |-> [name |-> "Alice", avatar_url |-> "pic.png"]],
      [email |-> "a@x.com", sub |-> "sub2",
       meta |-> [name |-> "Alice", avatar_url |-> "pic.png"]],
      [email |-> "admin@x.com", sub |-> "sub0",
       meta |-> [name |-> "Root", avatar_url |-> "root.png"]] }

\* `name` of a guest registration.
GuestNames == {"Al"}

Workshops == {"W1", "W2"}

VARIABLES
    users,          \* table "users": sequence of rows, row i has id i
    user_workshop,  \* table "user_workshop": sequence of rows
    assignments,    \* table "assignments": sequence of rows
    pc,             \* per request slot: the store call it executes next
    req,            \* per request slot: the request's inputs
    cur,            \* per request slot: current_user / guest_user (a users row), NoUser before
    resp,           \* per request slot: HTTP response [status, detail]
    exc,            \* per request slot: the store exception the request caught
    started,        \* number of requests started so far
    workshops,      \* table "workshops": per workshop id its row
    now,            \* the clock datetime.now() reads, in minutes
    job,            \* per job slot: one invocation of a reminder job
    outbox,         \* emails the transport accepted, counted per (kind, user, workshop)
    runs,           \* number of job invocations started so far
    ledger          \* history: the point awards that were written, in order

\* The state of the reminder scheduler.
sched == <<workshops, now, job, outbox, runs>>

vars == <<users, user_workshop, assignments, pc, req, cur, resp, exc, started,
          workshops, now, job, outbox, runs, ledger>>

\* One entry of the history of point awards: the user, the amount added,
\* the operation that added it and the total it wrote.
Award(u, amount, source, new_total) ==
    [user_id |-> u, amount |-> amount, source |-> source,
     new_total |-> new_total]

\* ------------------------------------------------------------ the store
Min(S) == CHOOSE x \in S : \A y \in S : x <= y

\* .eq("email", email) on users: the matching rows, in table order.
RowsByEmail(us, e) == {i \in DOMAIN us : us[i].email = e}

\* response.data[0] of a select by email.
FirstByEmail(us, e) == us[Min(RowsByEmail(us, e))]

\* users.email carries a unique constraint: an insert of a second row with
\* the same email is rejected by the store.
UsersInsertOk_NoUnique(us, row) == TRUE

UsersInsertOk(us, row) == \A i \in DOMAIN us : us[i].email # row.email

\* (user_id, workshop_id) is the primary key of user_workshop.
UserWorkshopInsertOk_NoPk(uw, u, w) == TRUE

UserWorkshopInsertOk(uw, u, w) ==
    \A i \in DOMAIN uw : ~(uw[i].user_id = u /\ uw[i].workshop_id = w)

\* The table assignments is created outside the sources; its
\* (user_id, workshop_id) pair is unique, as that of user_workshop.
AssignmentsInsertOk(as, u, w) ==
    \A i \in DOMAIN as : ~(as[i].user_id = u /\ as[i].workshop_id = w)

\* .eq("user_id", u).eq("workshop_id", w) on user_workshop / assignments.
PairRows(t, u, w) == {i \in DOMAIN t : t[i].user_id = u /\ t[i].workshop_id = w}

\* ------------------------------------------------------------ row makers
\* The row create_user_in_db inserts; id is generated by the store and
\* profile_complete takes the column default.
NewUserRow(us, email, name, auth_id, pic, role) ==
    [ id |-> Len(us) + 1,
      email |-> email,
      name |-> name,
      auth_id |-> auth_id,
      profile_pic_url |-> pic,
      role |-> role,
      points |-> 0,
      profile_complete |-> FALSE ]

\* An administrator: the role is assigned by hand in the store.
AdminRow == [ id |-> 1, email |-> "admin@x.com", name |-> "Root",
              auth_id |-> "sub0", profile_pic_url |-> NULL, role |-> "admin",
              points |-> 0, profile_complete |-> FALSE ]

\* marks of an assignment that has not been marked (null).
NoMarks == 0 - 1

\* The row create_assignment_on_enroll inserts, with the columns the store
\* fills in.
PendingAssignment_Submitted(id, u, w) ==
    [id |-> id, user_id |-> u, workshop_id |-> w, status |-> "submitted",
     submit_link |-> NULL, marks |-> NoMarks, feedback |-> NULL]

PendingAssignment(id, u, w) ==
    [id |-> id, user_id |-> u, workshop_id |-> w, status |-> "pending",
     submit_link |-> NULL, marks |-> NoMarks, feedback |-> NULL]

NoReq == [kind |-> NULL, email |-> NULL, sub |-> NULL,
          meta |-> [name |-> NULL, avatar_url |-> NULL],
          gname |-> NULL, workshop |-> NULL]

NoResp == [status |-> 0, detail |-> ""]

NoUser == [ id |-> 0, email |-> NULL, name |-> NULL, auth_id |-> NULL,
            profile_pic_url |-> NULL, role |-> NULL, points |-> 0,
            profile_complete |-> FALSE ]

Requests ==
    { [kind |-> "auth", email |-> t.email, sub |-> t.sub, meta |-> t.meta,
       gname |-> NULL, workshop |-> NULL] : t \in Tokens }
    \cup
    { [kind |-> "registered", email |-> tw[1].email, sub |-> tw[1].sub,
       meta |-> tw[1].meta, gname |-> NULL, workshop |-> tw[2]]
         : tw \in Tokens \X Workshops }
    \cup
    { [kind |-> "guest", email |-> ew[1], sub |-> NULL,
       meta |-> [name |-> NULL, avatar_url |-> NULL],
       gname |-> ew[2], workshop |-> ew[3]]
         : ew \in Emails \X GuestNames \X Workshops }

\* ------------------------------------------------ reminder scheduler inputs
\* Times are minutes on the clock datetime.now() reads; a workshop's
\* start_time is read as a timestamp on that same clock.
\* timedelta(days=1).
Day == 1440

\* The window of the 15-minute job: timedelta(minutes=10) and
\* timedelta(minutes=20).
WindowFrom == 10

WindowTo == 20

\* The clock at the start of a behaviour: 10:00 of day 0.
Now0 == 600

\* The clock advances in steps of five minutes.
TickMinutes == 5

\* Job slots: invocations of the reminder jobs that may overlap (the cron
\* endpoints and the admin triggers are independent requests).
Jobs == {"j1", "j2"}

\* send_1day_reminders and send_15min_reminders.
Kinds == {"1day", "15min"}

\* A start_time that is null in the store (no time of a behaviour is 0).
NoTime == 0

\* workshops.start_time as the jobs read it: absent, one hour ago, in 5,
\* 15 and 20 minutes, later today (+10h), and tomorrow (+23h and +25h).
StartTimes == {NoTime, 540, 605, 615, 620, 1200, 1980, 2100}

\* workshops.scheduled_at, the column create_workshop and update_workshop
\* write.
ScheduledAts == {2100, 2940}

\* The (user_id, workshop_id) pairs of the registrations.
Pairs == {1, 2, 3} \X Workshops

NoJob == [pc |-> "idle", kind |-> NULL, at |-> 0, batch |-> <<>>, i |-> 0,
          emails_sent |-> 0, failed_emails |-> 0, success |-> NULL]

\* No job has run: the scheduler's part of the initial state.
InitSched ==
    /\ now = Now0
    /\ job = [j \in Jobs |-> NoJob]
    /\ outbox = [k \in Kinds |-> [pr \in Pairs |-> 0]]
    /\ runs = 0

Init ==
    /\ workshops = [w \in Workshops |-> [scheduled_at |-> 2100, start_time |-> NoTime]]
    /\ InitSched
    /\ users \in {<<>>, <<AdminRow>>}
    /\ user_workshop = <<>>
    /\ assignments = <<>>
    /\ pc = [p \in Procs |-> "idle"]
    /\ req = [p \in Procs |-> NoReq]
    /\ cur = [p \in Procs |-> NoUser]
    /\ resp = [p \in Procs |-> NoResp]
    /\ exc = [p \in Procs |-> "none"]
    /\ started = 0
    /\ ledger = <<>>

Finish(p, status, detail) ==
    /\ pc' = [pc EXCEPT ![p] = "done"]
    /\ resp' = [resp EXCEPT ![p] = [status |-> status, detail |-> detail]]

Goto(p, label) ==
    /\ pc' = [pc EXCEPT ![p] = label]
    /\ UNCHANGED resp

\* A request arrives.
Start(p) ==
    /\ pc[p] \in {"idle", "done"}
    /\ started < MaxRequests
    /\ \E r \in Requests :
        /\ req' = [req EXCEPT ![p] = r]
        /\ pc' = [pc EXCEPT ![p] =
                    IF r.kind = "guest" THEN "check_existing_user_by_email"
                    ELSE "verify_user_exists"]
    /\ cur' = [cur EXCEPT ![p] = NoUser]
    /\ resp' = [resp EXCEPT ![p] = NoResp]
    /\ exc' = [exc EXCEPT ![p] = "none"]
    /\ started' = started + 1
    /\ UNCHANGED <<users, user_workshop, assignments, sched, ledger>>

\* ------------------------------------------------- Identity Resolver
\* What the caller of get_or_create_user does with the returned row:
\* authenticate_and_create_user returns it; get_current_registered_user
\* rejects a guest with 403 and otherwise hands it to the route.
ResolverReturns(p, row) ==
    /\ cur' = [cur EXCEPT ![p] = row]
    /\ IF req[p].kind = "auth"
         THEN Finish(p, 200, "User authenticated successfully")
         ELSE IF row.role = "guest"
                THEN Finish(p, 403, "Guest users must use the guest registration route")
                ELSE Goto(p, "get_user_workshops")

\* Any exception inside get_or_create_user is re-raised as a 500.
ResolverFails(p, cause) ==
    /\ exc' = [exc EXCEPT ![p] = cause]
    /\ Finish(p, 500, "Error processing user")
    /\ UNCHANGED cur

\* get_or_create_user, first store call: verify_user_exists(email).
verify_user_exists(p) ==
    /\ pc[p] = "verify_user_exists"
    /\ IF RowsByEmail(users, req[p].email) # {}
         THEN Goto(p, "get_user_role")
         ELSE Goto(p, "create_user_in_db")
    /\ UNCHANGED <<users, user_workshop, assignments, req, cur, exc, started, sched, ledger>>

\* The branch of get_or_create_user on current_role: only a guest is
\* upgraded, any other role is returned as stored.
NeedsUpgrade_Always(current_role) == TRUE

NeedsUpgrade(current_role) == current_role = "guest"

\* get_or_create_user, second store call: get_user_role(email), and the
\* branch on current_role.
get_user_role(p) ==
    /\ pc[p] = "get_user_role"
    /\ IF RowsByEmail(users, req[p].email) = {}
         THEN ResolverFails(p, "404 User not found")
         ELSE /\ IF NeedsUpgrade(FirstByEmail(users, req[p].email).role)
                   THEN Goto(p, "upgrade_select")
                   ELSE Goto(p, "get_user_by_email")
              /\ UNCHANGED <<cur, exc>>
    /\ UNCHANGED <<users, user_workshop, assignments, req, started, sched, ledger>>

\* upgrade_user_role_with_profile, first store call: the existence check.
upgrade_select(p) ==
    /\ pc[p] = "upgrade_select"
    /\ IF RowsByEmail(users, req[p].email) = {}
         THEN ResolverFails(p, "404 User not found")
         ELSE Goto(p, "upgrade_update") /\ UNCHANGED <<cur, exc>>
    /\ UNCHANGED <<users, user_workshop, assignments, req, started, sched, ledger>>

\* The update of upgrade_user_role_with_profile:
\* update({auth_id, role, name, profile_pic_url}).eq("email", email).
UpgradeRows_KeepGuest(us, email, auth_id, name, pic) ==
    [i \in DOMAIN us |->
        IF us[i].email = email
          THEN [us[i] EXCEPT !.auth_id = auth_id, !.name = name,
                             !.profile_pic_url = pic]
          ELSE us[i]]

UpgradeRows(us, email, auth_id, name, pic) ==
    [i \in DOMAIN us |->
        IF us[i].email = email
          THEN [us[i] EXCEPT !.auth_id = auth_id, !.role = "user",
                             !.name = name, !.profile_pic_url = pic]
          ELSE us[i]]

\* upgrade_user_role_with_profile, second store call, returning data[0].
upgrade_update(p) ==
    /\ pc[p] = "upgrade_update"
    /\ IF RowsByEmail(users, req[p].email) = {}
         THEN /\ ResolverFails(p, "no data returned")
              /\ UNCHANGED users
         ELSE /\ users' = UpgradeRows(users, req[p].email, req[p].sub,
                                      req[p].meta.name, req[p].meta.avatar_url)
              /\ ResolverReturns(p, FirstByEmail(users', req[p].email))
              /\ UNCHANGED exc
    /\ UNCHANGED <<user_workshop, assignments, req, started, sched, ledger>>

\* get_or_create_user, role user/admin: return get_user_by_email(email).
get_user_by_email(p) ==
    /\ pc[p] = "get_user_by_email"
    /\ IF RowsByEmail(users, req[p].email) = {}
         THEN ResolverFails(p, "404 User not found")
         ELSE /\ ResolverReturns(p, FirstByEmail(users, req[p].email))
              /\ UNCHANGED exc
    /\ UNCHANGED <<users, user_workshop, assignments, req, started, sched, ledger>>

\* get_or_create_user, no row: create_user_in_db(UserCreate(role=user,
\* points=0, auth_id=sub, name/avatar from the metadata)).
ResolverRow_AsGuest(us, r) ==
    NewUserRow(us, r.email, r.meta.name, r.sub, r.meta.avatar_url, "guest")

ResolverRow(us, r) ==
    NewUserRow(us, r.email, r.meta.name, r.sub, r.meta.avatar_url, "user")

create_user_in_db(p) ==
    /\ pc[p] = "create_user_in_db"
    /\ LET row == ResolverRow(users, req[p]) IN
         IF UsersInsertOk(users, row)
           THEN /\ users' = Append(users, row)
                /\ ResolverReturns(p, row)
                /\ UNCHANGED exc
           ELSE /\ ResolverFails(p, "unique violation users.email")
                /\ UNCHANGED users
    /\ UNCHANGED <<user_workshop, assignments, req, started, sched, ledger>>

Resolver(p) ==
    \/ verify_user_exists(p)
    \/ get_user_role(p)
    \/ upgrade_select(p)
    \/ upgrade_update(p)
    \/ get_user_by_email(p)
    \/ create_user_in_db(p)

\* ------------------------------------------------ guest account step
\* The row get_or_create_guest_account creates: role guest, the supplied
\* name, no auth_id, no avatar.
GuestRow_WithSub(us, r) ==
    NewUserRow(us, r.email, r.gname, r.sub, NULL, "user")

GuestRow(us, r) ==
    NewUserRow(us, r.email, r.gname, NULL, NULL, "guest")

\* validate_guest_registration on the row check_existing_user_by_email
\* found: can_register is False exactly for a row whose role is not guest.
CanRegister_Always(existing) == TRUE

CanRegister(existing) == existing.role = "guest"

\* get_or_create_guest_account up to its first store call:
\* check_existing_user_by_email (get_user_by_email, 404 -> None),
\* validate_guest_registration, and the branch on its result.
check_existing_user_by_email(p) ==
    /\ pc[p] = "check_existing_user_by_email"
    /\ IF RowsByEmail(users, req[p].email) = {}
         THEN Goto(p, "create_guest_account") /\ UNCHANGED cur
         ELSE LET existing == FirstByEmail(users, req[p].email) IN
              IF ~CanRegister(existing)
                THEN /\ Finish(p, 400, "This email is already associated with a registered account")
                     /\ UNCHANGED cur
                ELSE /\ cur' = [cur EXCEPT ![p] = existing]
                     /\ Goto(p, "get_user_workshops")
    /\ UNCHANGED <<users, user_workshop, assignments, req, exc, started, sched, ledger>>

\* get_or_create_guest_account, no row found: create_user_in_db(guest).
create_guest_account(p) ==
    /\ pc[p] = "create_guest_account"
    /\ LET row == GuestRow(users, req[p]) IN
         IF UsersInsertOk(users, row)
           THEN /\ users' = Append(users, row)
                /\ cur' = [cur EXCEPT ![p] = row]
                /\ Goto(p, "get_user_workshops")
                /\ UNCHANGED exc
           ELSE /\ exc' = [exc EXCEPT ![p] = "unique violation users.email"]
                /\ Finish(p, 500, "Error creating user")
                /\ UNCHANGED <<users, cur>>
    /\ UNCHANGED <<user_workshop, assignments, req, started, sched, ledger>>

\* ------------------------------------------------- registration routes
\* get_user_workshops(user_id): the workshops of the user's registration
\* rows whose joined workshop exists.
GetUserWorkshops(uw, uid) ==
    {uw[i].workshop_id : i \in {j \in DOMAIN uw : uw[j].user_id = uid
                                                  /\ uw[j].workshop_id \in Workshops}}

\* The routes' own duplicate check: the 409 it raises is raised inside the
\* try whose handler passes on every HTTPException that is not a 500, so
\* the route goes on to register_user_to_workshop either way.
RoutePreCheckStatus(uw, uid, w) ==
    LET raised == IF w \in GetUserWorkshops(uw, uid) THEN 409 ELSE 0
    IN IF raised # 500 THEN 0 ELSE raised

get_user_workshops(p) ==
    /\ pc[p] = "get_user_workshops"
    /\ IF RoutePreCheckStatus(user_workshop, cur[p].id, req[p].workshop) = 0
         THEN Goto(p, "register_check")
         ELSE Finish(p, 500, "Failed to fetch user workshops")
    /\ UNCHANGED <<users, user_workshop, assignments, req, cur, exc, started, sched, ledger>>

\* register_user_to_workshop, first store call: the existence check.
DuplicateFound_Never(uw, u, w) == FALSE

DuplicateFound(uw, u, w) == PairRows(uw, u, w) # {}

register_check(p) ==
    /\ pc[p] = "register_check"
    /\ IF DuplicateFound(user_workshop, cur[p].id, req[p].workshop)
         THEN Finish(p, 409, "User already registered for this workshop")
         ELSE Goto(p, "register_insert")
    /\ UNCHANGED <<users, user_workshop, assignments, req, cur, exc, started, sched, ledger>>

\* register_user_to_workshop, second store call: the insert.  A rejected
\* insert raises in the client; `except Exception` turns it into a 500.
register_insert(p) ==
    /\ pc[p] = "register_insert"
    /\ IF UserWorkshopInsertOk(user_workshop, cur[p].id, req[p].workshop)
         THEN /\ user_workshop' = Append(user_workshop,
                    [user_id |-> cur[p].id, workshop_id |-> req[p].workshop,
                     reminder_1day_sent |-> FALSE, reminder_15min_sent |-> FALSE])
              /\ Goto(p, "assignment_check")
              /\ UNCHANGED exc
         ELSE /\ exc' = [exc EXCEPT ![p] = "unique violation user_workshop pkey"]
              /\ Finish(p, 500, "Registration failed due to internal error")
              /\ UNCHANGED user_workshop
    /\ UNCHANGED <<users, assignments, req, cur, started, sched, ledger>>

\* The status of the registration routes' answer after
\* create_assignment_on_enroll returned: assignment_created is only logged.
RegistrationAnswer_Strict(assignment_created) ==
    IF assignment_created THEN 200 ELSE 500

RegistrationAnswer(assignment_created) == 200

\* create_assignment_on_enroll, first store call; an existing assignment
\* row makes it return True and the route answers.
assignment_check(p) ==
    /\ pc[p] = "assignment_check"
    /\ IF PairRows(assignments, cur[p].id, req[p].workshop) # {}
         THEN Finish(p, RegistrationAnswer(TRUE),
                     "Registration successful with assignment created")
         ELSE Goto(p, "assignment_insert")
    /\ UNCHANGED <<users, user_workshop, assignments, req, cur, exc, started, sched, ledger>>

\* create_assignment_on_enroll, second store call, and the route's answer.
\* A rejected insert raises in the client; `except Exception` returns
\* False, which the route only logs.
assignment_insert(p) ==
    /\ pc[p] = "assignment_insert"
    /\ IF AssignmentsInsertOk(assignments, cur[p].id, req[p].workshop)
         THEN /\ assignments' = Append(assignments,
                    PendingAssignment(Len(assignments) + 1, cur[p].id,
                                      req[p].workshop))
              /\ UNCHANGED exc
              /\ Finish(p, RegistrationAnswer(TRUE),
                        "Registration successful with assignment created")
         ELSE /\ exc' = [exc EXCEPT ![p] = "unique violation assignments"]
              /\ UNCHANGED assignments
              /\ Finish(p, RegistrationAnswer(FALSE),
                        "Registration successful with assignment created")
    /\ UNCHANGED <<users, user_workshop, req, cur, started, sched, ledger>>

GuestAccount(p) ==
    \/ check_existing_user_by_email(p)
    \/ create_guest_account(p)

Register(p) ==
    \/ get_user_workshops(p)
    \/ register_check(p)
    \/ register_insert(p)
    \/ assignment_check(p)
    \/ assignment_insert(p)

Next ==
    \E p \in Procs :
        \/ Start(p)
        \/ Resolver(p)
        \/ GuestAccount(p)
        \/ Register(p)

Spec == Init /\ [][Next]_vars

\* Requests handled one after the other: a request starts only when no
\* other request is in flight.
StartSeq(p) ==
    /\ \A q \in Procs : pc[q] \in {"idle", "done"}
    /\ Start(p)

NextSeq ==
    \E p \in Procs :
        \/ StartSeq(p)
        \/ Resolver(p)
        \/ GuestAccount(p)
        \/ Register(p)

SpecSeq == Init /\ [][NextSeq]_vars

\* ------------------------------------------------ store failure on lookup
\* check_existing_user_by_email when the select of get_user_by_email fails:
\* get_user_by_email raises a 500, the inner handler re-raises it because
\* it is not a 404, the outer `except Exception` catches that and returns
\* None, and validate_guest_registration reads None as "no user exists".
check_existing_user_by_email_error(p) ==
    /\ pc[p] = "check_existing_user_by_email"
    /\ exc' = [exc EXCEPT ![p] = "500 Error fetching user"]
    /\ Goto(p, "create_guest_account")
    /\ UNCHANGED <<users, user_workshop, assignments, req, cur, started, sched, ledger>>

NextStoreError ==
    \E p \in Procs :
        \/ Start(p)
        \/ Resolver(p)
        \/ GuestAccount(p)
        \/ Register(p)
        \/ check_existing_user_by_email_error(p)

SpecStoreError == Init /\ [][NextStoreError]_vars

\* ---------------------------------------------------- Reminder Scheduler
\* Two users, the first registered for W1, the second for W2: the rows
\* register_user_to_workshop inserted, reminder flags false.
Registration(u, w) ==
    [user_id |-> u, workshop_id |-> w,
     reminder_1day_sent |-> FALSE, reminder_15min_sent |-> FALSE]

InitRemind ==
    /\ users = << NewUserRow(<<>>, "a@x.com", "Al", NULL, NULL, "guest"),
                  [NewUserRow(<<>>, "b@x.com", "Bob", "sub3", "bob.png", "user")
                      EXCEPT !.id = 2] >>
    /\ user_workshop = << Registration(1, "W1"), Registration(2, "W2") >>
    /\ assignments = <<>>
    /\ pc = [p \in Procs |-> "idle"]
    /\ req = [p \in Procs |-> NoReq]
    /\ cur = [p \in Procs |-> NoUser]
    /\ resp = [p \in Procs |-> NoResp]
    /\ exc = [p \in Procs |-> "none"]
    /\ started = 0
    /\ ledger = <<>>
    /\ workshops \in [Workshops ->
                        [scheduled_at : {2100}, start_time : StartTimes]]
    /\ InitSched

\* `workshop and workshop.get("start_time")`.
HasStartTime(w) == w.start_time # NoTime

\* tomorrow = datetime.now() + timedelta(days=1)
Tomorrow(t) == t + Day

\* .replace(hour=0, minute=0, second=0, microsecond=0)
DayStart(t) == (t \div Day) * Day

\* .replace(hour=23, minute=59, second=59, microsecond=999999): the last
\* instant of the day.
DayEnd(t) == DayStart(t) + Day - 1

\* The filter of get_workshops_for_1day_reminder:
\* start_time <= workshop_start <= end_time, the calendar day of tomorrow.
InWindow1Day_Next24h(t, st) == t < st /\ st <= t + Day

InWindow1Day(t, st) ==
    DayStart(Tomorrow(t)) <= st /\ st <= DayEnd(Tomorrow(t))

\* The filter of get_workshops_for_15min_reminder.
InWindow15Min_Next15(t, st) == t < st /\ st <= t + 15

InWindow15Min(t, st) == t + WindowFrom <= st /\ st <= t + WindowTo

InWindow(k, t, st) ==
    IF k = "1day" THEN InWindow1Day(t, st) ELSE InWindow15Min(t, st)

\* The flag a job of kind k filters on and sets.
Flag(k, row) ==
    IF k = "1day" THEN row.reminder_1day_sent ELSE row.reminder_15min_sent

\* .eq("reminder_1day_sent", False) / .eq("reminder_15min_sent", False),
\* then the filter on the joined workshop.
Eligible_Unclaimed(k, row, ws, t) ==
    /\ ~Flag(k, row)
    /\ row.workshop_id \in DOMAIN ws
    /\ HasStartTime(ws[row.workshop_id])
    /\ InWindow(k, t, ws[row.workshop_id].start_time)
    /\ \A q \in DOMAIN job :
        job[q].kind = k
        => \A n \in DOMAIN job[q].batch :
            ~(job[q].batch[n].user_id = row.user_id
              /\ job[q].batch[n].workshop_id = row.workshop_id)

Eligible_AnyTime(k, row, ws, t) ==
    /\ ~Flag(k, row)
    /\ row.workshop_id \in DOMAIN ws
    /\ HasStartTime(ws[row.workshop_id])

Eligible(k, row, ws, t) ==
    /\ ~Flag(k, row)
    /\ row.workshop_id \in DOMAIN ws
    /\ HasStartTime(ws[row.workshop_id])
    /\ InWindow(k, t, ws[row.workshop_id].start_time)

\* filtered_data: the eligible rows in table order, each with the
\* start_time of its joined workshop.
ForReminder(k, uw, ws, t) ==
    LET Test(row) == Eligible(k, row, ws, t)
        hit == SelectSeq(uw, Test)
    IN [n \in DOMAIN hit |->
            [user_id |-> hit[n].user_id, workshop_id |-> hit[n].workshop_id,
             start_time |-> ws[hit[n].workshop_id].start_time]]

\* The job's return value; the batch is dropped with the invocation.
JobDone_RaiseOnFailure(k, t, success, sent, failed) ==
    [pc |-> "done", kind |-> k, at |-> t, batch |-> <<>>, i |-> 0,
     emails_sent |-> IF failed > 0 THEN 0 ELSE sent,
     failed_emails |-> IF failed > 0 THEN 0 ELSE failed,
     success |-> IF failed > 0 THEN "False" ELSE success]

JobDone(k, t, success, sent, failed) ==
    [pc |-> "done", kind |-> k, at |-> t, batch |-> <<>>, i |-> 0,
     emails_sent |-> sent, failed_emails |-> failed, success |-> success]

\* End of one iteration of `for item in workshops_data`: the counters, and
\* the next item or the return.
NextItem_Abort(r, sent, failed) ==
    JobDone(r.kind, r.at, "True", r.emails_sent + sent, r.failed_emails + failed)

NextItem(r, sent, failed) ==
    IF r.i < Len(r.batch)
      THEN [r EXCEPT !.pc = "send", !.i = @ + 1,
                     !.emails_sent = @ + sent, !.failed_emails = @ + failed]
      ELSE JobDone(r.kind, r.at, "True",
                   r.emails_sent + sent, r.failed_emails + failed)

\* send_1day_reminders / send_15min_reminders up to the loop: the select of
\* get_workshops_for_..._reminder at the current clock.
get_workshops_for_reminder(j, k) ==
    /\ job[j].pc \in {"idle", "done"}
    /\ runs < MaxRuns
    /\ runs' = runs + 1
    /\ LET found == ForReminder(k, user_workshop, workshops, now) IN
         job' = [job EXCEPT ![j] =
                    IF found = <<>>
                      THEN JobDone(k, now, "True", 0, 0)
                      ELSE [pc |-> "send", kind |-> k, at |-> now,
                            batch |-> found, i |-> 1, emails_sent |-> 0,
                            failed_emails |-> 0, success |-> NULL]]
    /\ UNCHANGED <<users, user_workshop, assignments, pc, req, cur, resp, exc, ledger,
                   started, workshops, now, outbox>>

\* The select fails: get_workshops_for_..._reminder raises a 500 and the
\* job's outer handler returns success False with both counters 0.
get_workshops_error(j, k) ==
    /\ job[j].pc \in {"idle", "done"}
    /\ runs < MaxRuns
    /\ runs' = runs + 1
    /\ job' = [job EXCEPT ![j] = JobDone(k, now, "False", 0, 0)]
    /\ UNCHANGED <<users, user_workshop, assignments, pc, req, cur, resp, exc, ledger,
                   started, workshops, now, outbox>>

\* `if email_result.get("success")`.
SendOk_Any(email_result) == TRUE

SendOk(email_result) == email_result = "success"

\* One item of the loop up to the store call: the email is handed to the
\* transport, which accepts it or reports a failure.
send_workshop_reminder(j) ==
    /\ job[j].pc = "send"
    /\ LET r == job[j]
           item == r.batch[r.i]
           pr == <<item.user_id, item.workshop_id>>
       IN \E email_result \in {"success", "failure"} :
            /\ outbox' = IF email_result = "success"
                           THEN [outbox EXCEPT ![r.kind][pr] = @ + 1]
                           ELSE outbox
            /\ job' = [job EXCEPT ![j] =
                          IF SendOk(email_result)
                            THEN [r EXCEPT !.pc = "update"]
                            ELSE NextItem(r, 0, 1)]
    /\ UNCHANGED <<users, user_workshop, assignments, pc, req, cur, resp, exc, ledger,
                   started, workshops, now, runs>>

\* update(update_data).eq("user_id", u).eq("workshop_id", w) with the one
\* flag the job passes.
SetFlag_ResetOther(uw, k, u, w) ==
    [n \in DOMAIN uw |->
        IF uw[n].user_id = u /\ uw[n].workshop_id = w
          THEN [uw[n] EXCEPT !.reminder_1day_sent = (k = "1day"),
                             !.reminder_15min_sent = (k = "15min")]
          ELSE uw[n]]

SetFlag(uw, k, u, w) ==
    [n \in DOMAIN uw |->
        IF uw[n].user_id = u /\ uw[n].workshop_id = w
          THEN IF k = "1day" THEN [uw[n] EXCEPT !.reminder_1day_sent = TRUE]
                             ELSE [uw[n] EXCEPT !.reminder_15min_sent = TRUE]
          ELSE uw[n]]

\* The rest of the item: update_reminder_status.  The update is applied, or
\* it raises (the store fails, or no row matches: 404) and the item's
\* handler counts the item as failed.
update_reminder_status(j) ==
    /\ job[j].pc = "update"
    /\ LET r == job[j]
           item == r.batch[r.i]
       IN \E store_ok \in BOOLEAN :
            IF store_ok /\ PairRows(user_workshop, item.user_id, item.workshop_id) # {}
              THEN /\ user_workshop' = SetFlag(user_workshop, r.kind,
                                               item.user_id, item.workshop_id)
                   /\ job' = [job EXCEPT ![j] = NextItem(r, 1, 0)]
              ELSE /\ UNCHANGED user_workshop
                   /\ job' = [job EXCEPT ![j] = NextItem(r, 0, 1)]
    /\ UNCHANGED <<users, assignments, pc, req, cur, resp, exc, started, ledger,
                   workshops, now, outbox, runs>>

\* Time passes.
Tick ==
    /\ now + TickMinutes <= Now0 + MaxTicks * TickMinutes
    /\ now' = now + TickMinutes
    /\ UNCHANGED <<users, user_workshop, assignments, pc, req, cur, resp, exc, ledger,
                   started, workshops, job, outbox, runs>>

ReminderJob(j) ==
    \/ \E k \in Kinds : get_workshops_for_reminder(j, k)
    \/ \E k \in Kinds : get_workshops_error(j, k)
    \/ send_workshop_reminder(j)
    \/ update_reminder_status(j)

NextRemind ==
    \/ Tick
    \/ \E j \in Jobs : ReminderJob(j)

SpecRemind == InitRemind /\ [][NextRemind]_vars

\* Job invocations one after the other: a job is invoked only when no
\* other invocation is running.
SuccessiveRun(j, k) ==
    /\ \A q \in Jobs : job[q].pc \in {"idle", "done"}
    /\ \/ get_workshops_for_reminder(j, k)
       \/ get_workshops_error(j, k)

NextRemindSeq ==
    \/ Tick
    \/ \E j \in Jobs :
        \/ \E k \in Kinds : SuccessiveRun(j, k)
        \/ send_workshop_reminder(j)
        \/ update_reminder_status(j)

SpecRemindSeq == InitRemind /\ [][NextRemindSeq]_vars

\* ------------------------------------------- other writers of the tables
\* Bodies of the admin's reminder-status requests: (reminder_1day_sent,
\* reminder_15min_sent), each absent (<<>>) or a value.
ReminderBodies ==
    { << <<FALSE>>, <<>> >>, << <<>>, <<FALSE>> >>, << <<TRUE>>, <<TRUE>> >> }

\* update(update_data) of the admin's reminder-status routes: every flag
\* that is present is written as given.
AdminSetFlags(uw, u, w, f1, f2) ==
    [n \in DOMAIN uw |->
        IF uw[n].user_id = u /\ uw[n].workshop_id = w
          THEN [uw[n] EXCEPT
                  !.reminder_1day_sent = IF f1 = <<>> THEN @ ELSE f1[1],
                  !.reminder_15min_sent = IF f2 = <<>> THEN @ ELSE f2[1]]
          ELSE uw[n]]

\* PATCH /user-workshop/reminder-status and POST
\* /notifications/update-reminder-status (both admin only): 400 without a
\* flag, 404 without a row, otherwise the update.
admin_update_reminder_status(u, w, f1, f2) ==
    /\ <<f1, f2>> # << <<>>, <<>> >>
    /\ PairRows(user_workshop, u, w) # {}
    /\ user_workshop' = AdminSetFlags(user_workshop, u, w, f1, f2)
    /\ UNCHANGED <<users, assignments, pc, req, cur, resp, exc, started, sched, ledger>>

\* WorkshopService.update_workshop with a new scheduled_at (which the
\* schema accepts only when it is in the future): one update of the
\* workshops row.
update_workshop(w, t) ==
    /\ t > now
    /\ workshops' = [workshops EXCEPT ![w].scheduled_at = t]
    /\ UNCHANGED <<users, user_workshop, assignments, pc, req, cur, resp, exc, ledger,
                   started, now, job, outbox, runs>>

\* W1 starts in 15 minutes, W2 tomorrow.
InitFlags ==
    /\ InitRemind
    /\ workshops["W1"].start_time = 615
    /\ workshops["W2"].start_time = 1980

\* No request and no job invocation is in progress.
Quiet ==
    /\ \A p \in Procs : pc[p] \in {"idle", "done"}
    /\ \A j \in Jobs : job[j].pc \in {"idle", "done"}

\* One request, job invocations and the admin's writes, one operation
\* after the other.  The caller's row is missing or a guest's, so the
\* resolver creates or upgrades it.
NextFlags ==
    \/ Quiet /\ started = 0 /\ Start("r1")
    \/ verify_user_exists("r1")
    \/ get_user_role("r1")
    \/ upgrade_select("r1")
    \/ upgrade_update("r1")
    \/ create_user_in_db("r1")
    \/ GuestAccount("r1")
    \/ Register("r1")
    \/ \E k \in Kinds : Quiet /\ get_workshops_for_reminder("j1", k)
    \/ send_workshop_reminder("j1")
    \/ update_reminder_status("j1")
    \/ \E t \in ScheduledAts : Quiet /\ update_workshop("W1", t)
    \/ \E pr \in Pairs, body \in ReminderBodies :
        Quiet /\ admin_update_reminder_status(pr[1], pr[2], body[1], body[2])

SpecFlags == InitFlags /\ [][NextFlags]_vars

\* ------------------------------------------------- profile completion
\* The points is_profile_complete adds when a profile becomes complete.
Bonus == 10

\* Bodies of PUT /users/me (UserUpdate): each field absent (<<>>) or set.
UserUpdates ==
    { [name |-> n, profile_pic_url |-> c] :
        n \in {<<>>, <<"Alice">>}, c \in {<<>>, <<"pic.png">>} }

\* One user with role user, as the resolver created it: name and avatar
\* are those of the token's metadata, either of which may be missing.
InitProfile ==
    /\ users \in { << NewUserRow(<<>>, "a@x.com", n, "sub1", c, "user") >> :
                     n \in {NULL, "Alice"}, c \in {NULL, "pic.png"} }
    /\ user_workshop = <<>>
    /\ assignments = <<>>
    /\ pc = [p \in Procs |-> "idle"]
    /\ req = [p \in Procs |-> NoReq]
    /\ cur = [p \in Procs |-> NoUser]
    /\ resp = [p \in Procs |-> NoResp]
    /\ exc = [p \in Procs |-> "none"]
    /\ started = 0
    /\ ledger = <<>>
    /\ workshops = [w \in Workshops |-> [scheduled_at |-> 2100, start_time |-> NoTime]]
    /\ InitSched

\* PUT /users/me or GET /users/me/profile/status arrives; the dependency
\* authenticate_and_create_user has returned the caller's row (for a row of
\* role user it only reads).
StartProfile(p) ==
    /\ pc[p] \in {"idle", "done"}
    /\ started < MaxRequests
    /\ started' = started + 1
    /\ \E i \in DOMAIN users, route \in {"update_my_profile",
                                         "get_my_profile_completion_status"} :
        /\ req' = [req EXCEPT ![p] = [NoReq EXCEPT !.kind = route]]
        /\ cur' = [cur EXCEPT ![p] = users[i]]
        /\ pc' = [pc EXCEPT ![p] =
                    IF route = "update_my_profile"
                      THEN "update_user" ELSE "is_profile_complete"]
    /\ resp' = [resp EXCEPT ![p] = NoResp]
    /\ exc' = [exc EXCEPT ![p] = "none"]
    /\ UNCHANGED <<users, user_workshop, assignments, sched, ledger>>

\* update(update_data).eq("id", user_id) with the fields that are set.
ApplyUserUpdate(row, data) ==
    [row EXCEPT !.name = IF data.name = <<>> THEN @ ELSE data.name[1],
                !.profile_pic_url = IF data.profile_pic_url = <<>>
                                      THEN @ ELSE data.profile_pic_url[1]]

\* update_user up to its call of is_profile_complete: 400 without a field,
\* otherwise the update of the row.
update_user(p) ==
    /\ pc[p] = "update_user"
    /\ \E data \in UserUpdates :
        IF data.name = <<>> /\ data.profile_pic_url = <<>>
          THEN /\ Finish(p, 400, "No fields to update")
               /\ UNCHANGED users
          ELSE /\ users' = [users EXCEPT ![cur[p].id] = ApplyUserUpdate(@, data)]
               /\ Goto(p, "is_profile_complete")
    /\ UNCHANGED <<user_workshop, assignments, req, cur, exc, started, sched, ledger>>

\* required_fields: name and profile_pic_url, each non-empty.
IsComplete(row) == row.name # NULL /\ row.profile_pic_url # NULL

\* newly_completed = is_complete and not current_profile_complete
NewlyCompleted(row) == IsComplete(row) /\ ~row.profile_complete

\* is_profile_complete, first store call: the select of the row, and the
\* answer when nothing is to be awarded.
is_profile_complete(p) ==
    /\ pc[p] = "is_profile_complete"
    /\ LET user_data == users[cur[p].id] IN
         /\ cur' = [cur EXCEPT ![p] = user_data]
         /\ IF NewlyCompleted(user_data)
              THEN Goto(p, "award")
              ELSE IF IsComplete(user_data)
                     THEN Finish(p, 200, "Profile already complete")
                     ELSE Finish(p, 200, "Profile incomplete")
    /\ UNCHANGED <<users, user_workshop, assignments, req, exc, started, sched, ledger>>

\* is_profile_complete, second store call:
\* update({profile_complete: True, points: current_points + 10}).
award(p) ==
    /\ pc[p] = "award"
    /\ users' = [users EXCEPT ![cur[p].id] =
                    [@ EXCEPT !.profile_complete = TRUE,
                              !.points = cur[p].points + Bonus]]
    /\ ledger' = Append(ledger, Award(cur[p].id, Bonus, "profile",
                                      cur[p].points + Bonus))
    /\ Finish(p, 200, "Profile completed! 10 points awarded!")
    /\ UNCHANGED <<user_workshop, assignments, req, cur, exc, started, sched>>

\* The update of delete_user_by_id.
SoftDelete(row) ==
    [row EXCEPT !.profile_complete = FALSE, !.name = NULL,
                !.profile_pic_url = NULL]

\* DELETE /users/{user_id} (admin only).  The update is built with a
\* trailing .select("*") on the filter builder, which a client without
\* that method rejects before anything is sent: the row is soft-deleted,
\* or the call fails with a 500 and the row is as it was.
delete_user_by_id(i) ==
    /\ started < MaxRequests
    /\ started' = started + 1
    /\ \E applied \in BOOLEAN :
        users' = IF applied THEN [users EXCEPT ![i] = SoftDelete(@)] ELSE users
    /\ UNCHANGED <<user_workshop, assignments, pc, req, cur, resp, exc, sched, ledger>>

NextProfile ==
    \/ \E p \in Procs :
        \/ StartProfile(p)
        \/ update_user(p)
        \/ is_profile_complete(p)
        \/ award(p)
    \/ \E i \in DOMAIN users : delete_user_by_id(i)

SpecProfile == InitProfile /\ [][NextProfile]_vars

\* ------------------------------------------------ points and assignments
\* The points the submit route adds for a first submission.
SubmitBonus == 20

AssignmentStatus == {"pending", "submitted", "under_review", "reviewed", "rejected"}

\* amount of POST /users/{user_id}/points: any integer.
Amounts == {0, 5}

\* Bodies of PATCH /assignments/grade/{assignment_id} (AssignmentGrade):
\* any status, marks absent or given, feedback given with a verdict.
GradeBodies ==
    { [status |-> st, marks |-> m,
       feedback |-> IF st \in {"reviewed", "rejected"} THEN "well done" ELSE NULL] :
        st \in AssignmentStatus, m \in {NoMarks, 5} }

\* The inputs and locals of a points or assignment request.
PointsReq(kind, u, w, amount, body) ==
    [kind |-> kind, user_id |-> u, workshop |-> w, amount |-> amount,
     body |-> body, is_first_submission |-> FALSE]

NoBody == [status |-> NULL, marks |-> NoMarks, feedback |-> NULL]

\* One user with a filled profile that has not been checked yet, enrolled
\* in W1 with the pending assignment of the enrolment.
InitPoints ==
    /\ users = << NewUserRow(<<>>, "a@x.com", "Alice", "sub1", "pic.png", "user") >>
    /\ user_workshop = << Registration(1, "W1") >>
    /\ assignments = << PendingAssignment(1, 1, "W1") >>
    /\ pc = [p \in Procs |-> "idle"]
    /\ req = [p \in Procs |-> NoReq]
    /\ cur = [p \in Procs |-> NoUser]
    /\ resp = [p \in Procs |-> NoResp]
    /\ exc = [p \in Procs |-> "none"]
    /\ started = 0
    /\ ledger = <<>>
    /\ workshops = [w \in Workshops |-> [scheduled_at |-> 2100, start_time |-> NoTime]]
    /\ InitSched

\* A request arrives at POST /users/{user_id}/points,
\* PUT /assignments/submit/{workshop_id}, PATCH /assignments/grade/{id} or
\* GET /users/me/profile/status; its dependency has returned the caller's
\* row (for a row of role user it only reads).
StartPoints(p) ==
    /\ pc[p] \in {"idle", "done"}
    /\ started < MaxRequests
    /\ started' = started + 1
    /\ \E i \in DOMAIN users :
        /\ cur' = [cur EXCEPT ![p] = users[i]]
        /\ \/ \E a \in Amounts :
                /\ req' = [req EXCEPT ![p] =
                            PointsReq("increment_user_points", i, NULL, a, NoBody)]
                /\ pc' = [pc EXCEPT ![p] = "increment_user_points"]
           \/ \E w \in Workshops :
                /\ req' = [req EXCEPT ![p] =
                            PointsReq("submit_assignment", i, w, SubmitBonus, NoBody)]
                /\ pc' = [pc EXCEPT ![p] = "get_assignment_for_user_in_workshop"]
           \/ \E a \in DOMAIN assignments, body \in GradeBodies :
                /\ req' = [req EXCEPT ![p] =
                            PointsReq("grade_assignment", assignments[a].user_id,
                                      assignments[a].workshop_id, body.marks, body)]
                /\ pc' = [pc EXCEPT ![p] = "grade_assignment"]
           \/ /\ req' = [req EXCEPT ![p] =
                            PointsReq("get_my_profile_completion_status", i, NULL, Bonus, NoBody)]
              /\ pc' = [pc EXCEPT ![p] = "is_profile_complete"]
    /\ resp' = [resp EXCEPT ![p] = NoResp]
    /\ exc' = [exc EXCEPT ![p] = "none"]
    /\ UNCHANGED <<users, user_workshop, assignments, sched, ledger>>

\* The submit route's check before it submits: is_first_submission is
\* true when the assignment it reads is pending.
IsFirstSubmission(as, u, w) ==
    /\ PairRows(as, u, w) # {}
    /\ as[Min(PairRows(as, u, w))].status = "pending"

get_assignment_for_user_in_workshop(p) ==
    /\ pc[p] = "get_assignment_for_user_in_workshop"
    /\ req' = [req EXCEPT ![p].is_first_submission =
                 IsFirstSubmission(assignments, req[p].user_id, req[p].workshop)]
    /\ pc' = [pc EXCEPT ![p] = "submit_assignment"]
    /\ UNCHANGED <<users, user_workshop, assignments, cur, resp, exc, started,
                   sched, ledger>>

\* AssignmentService.submit_assignment: the row of the pair is looked up
\* and updated by id (rows are never deleted, so the two calls are one
\* step); then the route awards the bonus for a first submission.
SubmitRow(row) ==
    [row EXCEPT !.submit_link = "https://x", !.status = "submitted"]

submit_assignment(p) ==
    /\ pc[p] = "submit_assignment"
    /\ LET found == PairRows(assignments, req[p].user_id, req[p].workshop) IN
         IF found = {}
           THEN /\ Finish(p, 404, "No assignment found for this workshop")
                /\ UNCHANGED assignments
           ELSE /\ assignments' = [assignments EXCEPT ![Min(found)] = SubmitRow(@)]
                /\ IF req[p].is_first_submission
                     THEN Goto(p, "increment_user_points")
                     ELSE Finish(p, 200, "Assignment updated successfully!")
    /\ UNCHANGED <<users, user_workshop, req, cur, exc, started, sched, ledger>>

\* AssignmentService.grade_assignment: status, feedback and marks are
\* written as given; then the route awards the marks as points.
GradeRow(row, body) ==
    [row EXCEPT !.status = body.status, !.feedback = body.feedback,
                !.marks = body.marks]

grade_assignment(p) ==
    /\ pc[p] = "grade_assignment"
    /\ LET found == PairRows(assignments, req[p].user_id, req[p].workshop) IN
         IF found = {}
           THEN /\ Finish(p, 404, "Assignment not found")
                /\ UNCHANGED assignments
           ELSE /\ assignments' = [assignments EXCEPT ![Min(found)] =
                                      GradeRow(@, req[p].body)]
                /\ IF req[p].body.marks > 0
                     THEN Goto(p, "increment_user_points")
                     ELSE Finish(p, 200, "Assignment graded successfully")
    /\ UNCHANGED <<users, user_workshop, req, cur, exc, started, sched, ledger>>

\* increment_user_points up to its update: the validation of the amount
\* and the select of the current points.
increment_user_points(p) ==
    /\ pc[p] = "increment_user_points"
    /\ IF req[p].amount <= 0
         THEN /\ Finish(p, 400, "Points amount must be positive")
              /\ UNCHANGED cur
         ELSE /\ cur' = [cur EXCEPT ![p] = users[req[p].user_id]]
              /\ Goto(p, "update_points")
    /\ UNCHANGED <<users, user_workshop, assignments, req, exc, started, sched,
                   ledger>>

\* new_total = current_points + amount
NewTotal_Overwrite(current_points, amount) == amount

NewTotal(current_points, amount) == current_points + amount

\* The update of increment_user_points: the points read before plus the
\* amount are written, whatever the row holds by now.
WrittenPoints_Atomic(row, read, amount) == NewTotal(row.points, amount)

WrittenPoints(row, read, amount) == NewTotal(read.points, amount)

update_points(p) ==
    /\ pc[p] = "update_points"
    /\ LET u == req[p].user_id
           new_total == WrittenPoints(users[u], cur[p], req[p].amount) IN
         /\ users' = [users EXCEPT ![u].points = new_total]
         /\ ledger' = Append(ledger, Award(u, req[p].amount, req[p].kind, new_total))
    /\ Finish(p, 200, "Points added")
    /\ UNCHANGED <<user_workshop, assignments, req, cur, exc, started, sched>>

PointsRequest(p) ==
    \/ get_assignment_for_user_in_workshop(p)
    \/ submit_assignment(p)
    \/ grade_assignment(p)
    \/ increment_user_points(p)
    \/ update_points(p)
    \/ is_profile_complete(p)
    \/ award(p)

NextPoints ==
    \E p \in Procs :
        \/ StartPoints(p)
        \/ PointsRequest(p)

SpecPoints == InitPoints /\ [][NextPoints]_vars

\* The same requests handled one after the other.
NextPointsSeq ==
    \E p \in Procs :
        \/ (\A q \in Procs : pc[q] \in {"idle", "done"}) /\ StartPoints(p)
        \/ PointsRequest(p)

SpecPointsSeq == InitPoints /\ [][NextPointsSeq]_vars

\* ------------------------------------------- unregistering, enrolling again
\* The token of the one user of this scenario.
EnrollToken ==
    [email |-> "a@x.com", sub |-> "sub1",
     meta |-> [name |-> "Alice", avatar_url |-> "pic.png"]]

\* The user is registered for W1, which starts tomorrow; the 1-day reminder
\* went out and the assignment of the enrolment has been reviewed.
InitEnroll ==
    /\ users = << NewUserRow(<<>>, "a@x.com", "Alice", "sub1", "pic.png", "user") >>
    /\ user_workshop = << [Registration(1, "W1") EXCEPT !.reminder_1day_sent = TRUE] >>
    /\ assignments =
         << GradeRow(SubmitRow(PendingAssignment(1, 1, "W1")),
                     [status |-> "reviewed", marks |-> 5, feedback |-> "well done"]) >>
    /\ pc = [p \in Procs |-> "idle"]
    /\ req = [p \in Procs |-> NoReq]
    /\ cur = [p \in Procs |-> NoUser]
    /\ resp = [p \in Procs |-> NoResp]
    /\ exc = [p \in Procs |-> "none"]
    /\ started = 0
    /\ ledger = <<>>
    /\ workshops = [w \in Workshops |->
                      [scheduled_at |-> 2100,
                       start_time |-> IF w = "W1" THEN 1980 ELSE NoTime]]
    /\ now = Now0
    /\ job = [j \in Jobs |-> NoJob]
    /\ outbox = [k \in Kinds |-> [pr \in Pairs |->
                    IF k = "1day" /\ pr = <<1, "W1">> THEN 1 ELSE 0]]
    /\ runs = 0

\* POST /user-workshops/register/registered-user or
\* DELETE /user-workshops/unregister/{workshop_id} arrives; the dependency
\* get_current_registered_user has returned the caller's row (for a row of
\* role user it only reads).
StartEnroll(p) ==
    /\ pc[p] \in {"idle", "done"}
    /\ started < MaxRequests
    /\ started' = started + 1
    /\ \E w \in Workshops, route \in {"registered", "unregister"} :
        /\ req' = [req EXCEPT ![p] =
                     [kind |-> route, email |-> EnrollToken.email,
                      sub |-> EnrollToken.sub, meta |-> EnrollToken.meta,
                      gname |-> NULL, workshop |-> w]]
        /\ pc' = [pc EXCEPT ![p] =
                    IF route = "registered" THEN "get_user_workshops"
                    ELSE "unregister_user_from_workshop"]
    /\ cur' = [cur EXCEPT ![p] = FirstByEmail(users, EnrollToken.email)]
    /\ resp' = [resp EXCEPT ![p] = NoResp]
    /\ exc' = [exc EXCEPT ![p] = "none"]
    /\ UNCHANGED <<users, user_workshop, assignments, sched, ledger>>

\* delete().eq("user_id", u).eq("workshop_id", w) on user_workshop.
Unregister_AllOfUser(uw, u, w) == SelectSeq(uw, LAMBDA r : r.user_id # u)

Unregister(uw, u, w) ==
    SelectSeq(uw, LAMBDA r : ~(r.user_id = u /\ r.workshop_id = w))

\* unregister_user_from_workshop: the delete, 404 when it deleted nothing.
unregister_user_from_workshop(p) ==
    /\ pc[p] = "unregister_user_from_workshop"
    /\ IF PairRows(user_workshop, cur[p].id, req[p].workshop) = {}
         THEN /\ Finish(p, 404, "User registration not found for this workshop")
              /\ UNCHANGED user_workshop
         ELSE /\ user_workshop' = Unregister(user_workshop, cur[p].id, req[p].workshop)
              /\ Finish(p, 200, "Successfully unregistered from workshop")
    /\ UNCHANGED <<users, assignments, req, cur, exc, started, sched, ledger>>

\* A store call of create_assignment_on_enroll fails: `except Exception`
\* logs, returns False, and the route answers all the same.
create_assignment_on_enroll_error(p) ==
    /\ pc[p] \in {"assignment_check", "assignment_insert"}
    /\ exc' = [exc EXCEPT ![p] = "assignments store error"]
    /\ Finish(p, RegistrationAnswer(FALSE),
              "Registration successful with assignment created")
    /\ UNCHANGED <<users, user_workshop, assignments, req, cur, started, sched,
                   ledger>>

NextEnroll ==
    \/ \E p \in Procs :
        \/ StartEnroll(p)
        \/ Register(p)
        \/ unregister_user_from_workshop(p)
        \/ create_assignment_on_enroll_error(p)
    \/ get_workshops_for_reminder("j1", "1day")
    \/ send_workshop_reminder("j1")
    \/ update_reminder_status("j1")

SpecEnroll == InitEnroll /\ [][NextEnroll]_vars

\* --------------------------------------- guest registration that fails
\* The users table after the guest route failed with guest_user resolved:
\* the route's handlers re-raise or answer 500 and undo nothing.
GuestRouteFailure_Cleanup(us, guest_user) ==
    SelectSeq(us, LAMBDA row : row.id # guest_user.id)

GuestRouteFailure(us, guest_user) == us

\* The insert of register_user_to_workshop fails in the store:
\* `except Exception` raises a 500, which the route passes on.
register_insert_error(p) ==
    /\ pc[p] = "register_insert"
    /\ exc' = [exc EXCEPT ![p] = "user_workshop store error"]
    /\ users' = GuestRouteFailure(users, cur[p])
    /\ Finish(p, 500, "Registration failed due to internal error")
    /\ UNCHANGED <<user_workshop, assignments, req, cur, started, sched, ledger>>

\* Guest registrations only, with inserts that may fail.
NextGuestRetry ==
    \E p \in Procs :
        \/ Start(p) /\ req'[p].kind = "guest"
        \/ GuestAccount(p)
        \/ Register(p)
        \/ register_insert_error(p)

SpecGuestRetry == Init /\ [][NextGuestRetry]_vars

\* ------------------------------------------------------------ properties
\* Request p takes the step: every step of a request moves its pc.
Steps(p) == pc'[p] # pc[p]

Registered(p) == req[p].kind \in {"registered", "guest"}

\* C1: in every reachable state user_workshop holds at most one row per
\* (user_id, workshop_id) pair, whatever the interleaving of the existence
\* checks and inserts of concurrent registrations.
C1_OneRowPerPair ==
    \A i, j \in DOMAIN user_workshop :
        (user_workshop[i].user_id = user_workshop[j].user_id
         /\ user_workshop[i].workshop_id = user_workshop[j].workshop_id) => i = j

\* Two registrations of one pair both passed the existence check and the
\* second insert reached the store.
C1_Witness ==
    \E p \in Procs :
        /\ pc[p] = "done"
        /\ exc[p] = "unique violation user_workshop pkey"
        /\ Cardinality(PairRows(user_workshop, cur[p].id, req[p].workshop)) = 1

\* C2: when requests run one after the other, every registration of a pair
\* that reaches register_user_to_workshop answers 200 or 409, exactly one
\* row exists for the pair afterwards, and of two registrations of the same
\* pair at most one answered 200 (the first), the other 409.
C2_SecondIsConflict ==
    /\ \A p \in Procs :
        (pc[p] = "done" /\ Registered(p) /\ cur[p].id # 0
            /\ resp[p].status \notin {400, 403})
        => /\ resp[p].status \in {200, 409}
           /\ Cardinality(PairRows(user_workshop, cur[p].id, req[p].workshop)) = 1
    /\ \A p, q \in Procs :
        (p # q /\ pc[p] = "done" /\ pc[q] = "done"
            /\ Registered(p) /\ Registered(q)
            /\ cur[p].id # 0 /\ cur[p].id = cur[q].id
            /\ req[p].workshop = req[q].workshop)
        => ~(resp[p].status = 200 /\ resp[q].status = 200)

C2_Witness ==
    \E p, q \in Procs :
        /\ p # q /\ pc[p] = "done" /\ pc[q] = "done"
        /\ Registered(p) /\ Registered(q)
        /\ cur[p].id # 0 /\ cur[p].id = cur[q].id
        /\ req[p].workshop = req[q].workshop
        /\ resp[p].status = 200 /\ resp[q].status = 409
        /\ Cardinality(PairRows(user_workshop, cur[p].id, req[p].workshop)) = 1

\* C3: a duplicate registration is always answered 409, also when it is
\* the store that rejects the insert for uniqueness; never 500.
C3_DuplicateIs409 ==
    \A p \in Procs :
        (pc[p] = "done" /\ exc[p] = "unique violation user_workshop pkey")
        => resp[p].status = 409

\* C4: at most one users row per email in every reachable state, and
\* exactly one for the email of every request that has been answered.
C4_OneRowPerEmail ==
    /\ \A i, j \in DOMAIN users : users[i].email = users[j].email => i = j
    /\ \A p \in Procs :
        pc[p] = "done" => Cardinality(RowsByEmail(users, req[p].email)) = 1

\* A resolver or guest-account insert lost the race for its email.
C4_Witness ==
    \E p \in Procs :
        /\ pc[p] = "done"
        /\ exc[p] = "unique violation users.email"
        /\ Cardinality(RowsByEmail(users, req[p].email)) = 1

\* C5: once a users row has role user or admin and a non-null auth_id, no
\* step changes that auth_id.
C5_AuthIdNeverOverwritten ==
    [][\A i \in DOMAIN users :
        (users[i].role \in {"user", "admin"} /\ users[i].auth_id # NULL)
        => users'[i].auth_id = users[i].auth_id]_vars

\* C6: a guest registered for a workshop whose email later authenticates
\* is promoted in place: the email still has the one row with the guest's
\* id, its role is user, the authenticated request got that same id, and
\* the registration is still returned by the user's workshop listing.
C6_PromotedInPlace ==
    \A p \in Procs :
        (pc[p] = "done" /\ req[p].kind = "guest" /\ resp[p].status = 200)
        => /\ RowsByEmail(users, req[p].email) = {cur[p].id}
           /\ req[p].workshop \in GetUserWorkshops(user_workshop, cur[p].id)
           /\ \A q \in Procs :
                (req[q].kind \in {"auth", "registered"}
                    /\ req[q].email = req[p].email /\ cur[q].id # 0)
                => /\ cur[q].id = cur[p].id
                   /\ users[cur[p].id].role = "user"
                   /\ users[cur[p].id].auth_id # NULL

C6_Witness ==
    \E p, q \in Procs :
        /\ pc[p] = "done" /\ req[p].kind = "guest" /\ resp[p].status = 200
        /\ req[p].workshop = "W1"
        /\ pc[q] = "done" /\ req[q].kind = "auth" /\ resp[q].status = 200
        /\ req[q].email = req[p].email
        /\ cur[q].id = cur[p].id
        /\ cur[p].role = "guest" /\ users[cur[p].id].role = "user"
        /\ Len(users) = 1
        /\ "W1" \in GetUserWorkshops(user_workshop, cur[q].id)

\* C7: once the row of the email has role user or admin, a resolver call
\* takes the read-only path: it performs no insert and no update and
\* returns the row as stored; and such a role is never changed again.
C7_ResolverIdempotent ==
    [][/\ \A p \in Procs :
            LET e == req[p].email
                stable == RowsByEmail(users, e) # {}
                          /\ FirstByEmail(users, e).role \in {"user", "admin"}
            IN /\ (Steps(p) /\ pc[p] = "verify_user_exists" /\ stable)
                    => (pc'[p] = "get_user_role" /\ users' = users)
               /\ (Steps(p) /\ pc[p] = "get_user_role" /\ stable)
                    => (pc'[p] = "get_user_by_email" /\ users' = users)
               /\ (Steps(p) /\ pc[p] = "get_user_by_email" /\ stable)
                    => /\ users' = users
                       /\ cur'[p] = FirstByEmail(users, e)
                       /\ resp'[p].status # 500
       /\ \A i \in DOMAIN users :
            users[i].role \in {"user", "admin"} => users'[i].role = users[i].role
      ]_vars

\* Two answered calls with the same (email, sub, metadata) returned the
\* same record, which is the stored one.
C7_Witness ==
    \E p, q \in Procs :
        /\ p # q /\ pc[p] = "done" /\ pc[q] = "done"
        /\ req[p].kind = "auth" /\ req[q] = req[p]
        /\ resp[p].status = 200 /\ resp[q].status = 200
        /\ cur[p] = cur[q]
        /\ cur[p] = FirstByEmail(users, req[p].email)
        /\ cur[p].role = "user"

\* C8: with no row for the email, the resolver goes to the insert, and the
\* insert adds exactly one row (role user, points 0, profile_complete
\* false, name and avatar of the metadata, auth_id the token subject) and
\* writes nothing else.
C8_ResolverCreates ==
    [][\A p \in Procs :
        (Steps(p) /\ RowsByEmail(users, req[p].email) = {})
        => /\ pc[p] = "verify_user_exists"
                => (pc'[p] = "create_user_in_db" /\ users' = users)
           /\ pc[p] = "create_user_in_db"
                => /\ users' = Append(users,
                        [ id |-> Len(users) + 1,
                          email |-> req[p].email,
                          name |-> req[p].meta.name,
                          auth_id |-> req[p].sub,
                          profile_pic_url |-> req[p].meta.avatar_url,
                          role |-> "user",
                          points |-> 0,
                          profile_complete |-> FALSE ])
                   /\ cur'[p] = users'[Len(users')]
                   /\ UNCHANGED <<user_workshop, assignments>>
                   /\ resp'[p].status # 500]_vars

C8_Witness ==
    \E p \in Procs :
        /\ started = 1
        /\ pc[p] = "done" /\ req[p].kind = "auth" /\ resp[p].status = 200
        /\ users = << cur[p] >>
        /\ cur[p].role = "user" /\ cur[p].auth_id = req[p].sub
        /\ cur[p].name = "Alice" /\ cur[p].points = 0

\* C9: a guest registration whose email lookup finds a row of role user
\* or admin is answered 400 at once and changes no table.
C9_GuestRouteRejectsRegistered ==
    [][\A p \in Procs :
        (Steps(p) /\ pc[p] = "check_existing_user_by_email"
            /\ RowsByEmail(users, req[p].email) # {}
            /\ FirstByEmail(users, req[p].email).role \in {"user", "admin"})
        => /\ pc'[p] = "done"
           /\ resp'[p].status = 400
           /\ UNCHANGED <<users, user_workshop, assignments>>]_vars

C9_Witness ==
    \E p \in Procs :
        /\ pc[p] = "done" /\ req[p].kind = "guest" /\ resp[p].status = 400
        /\ FirstByEmail(users, req[p].email).role \in {"user", "admin"}
        /\ PairRows(user_workshop, FirstByEmail(users, req[p].email).id,
                    req[p].workshop) = {}

\* C10: a guest registration changes the users table only by inserting,
\* when no row exists for the email, one row with role guest, the supplied
\* name and a null auth_id; an existing guest row is reused as it is.
C10_GuestAccount ==
    [][\A p \in Procs :
        (Steps(p) /\ req[p].kind = "guest" /\ pc[p] \notin {"idle", "done"})
        => /\ \/ users' = users
              \/ /\ RowsByEmail(users, req[p].email) = {}
                 /\ users' = Append(users,
                        [ id |-> Len(users) + 1,
                          email |-> req[p].email,
                          name |-> req[p].gname,
                          auth_id |-> NULL,
                          profile_pic_url |-> NULL,
                          role |-> "guest",
                          points |-> 0,
                          profile_complete |-> FALSE ])
                 /\ cur'[p] = users'[Len(users')]
           /\ (pc[p] = "check_existing_user_by_email"
                 /\ RowsByEmail(users, req[p].email) # {}
                 /\ FirstByEmail(users, req[p].email).role = "guest")
              => /\ users' = users
                 /\ cur'[p] = FirstByEmail(users, req[p].email)
                 /\ pc'[p] = "get_user_workshops"
           /\ (pc[p] = "create_guest_account"
                 /\ RowsByEmail(users, req[p].email) = {})
              => users' # users]_vars

\* One guest request created the row, a second one for the same email
\* reuses it.
C10_Witness ==
    \E p, q \in Procs :
        /\ p # q
        /\ pc[p] = "done" /\ req[p].kind = "guest" /\ resp[p].status = 200
        /\ req[q].kind = "guest" /\ req[q].email = req[p].email
        /\ pc[q] = "get_user_workshops"
        /\ cur[q] = cur[p]
        /\ users = << cur[p] >>
        /\ cur[p].role = "guest" /\ cur[p].auth_id = NULL /\ cur[p].name = "Al"

\* C11: a guest registration whose email lookup failed in the store ends
\* with a server error; it resolves or creates no users row and inserts no
\* registration row.
C11_LookupErrorAborts ==
    \A p \in Procs :
        (req[p].kind = "guest" /\ exc[p] = "500 Error fetching user")
        => /\ cur[p].id = 0
           /\ pc[p] = "done" => resp[p].status = 500
           /\ pc[p] \notin {"register_insert", "assignment_check", "assignment_insert"}

\* The pairs a job invocation holds in its batch.
Selected(r) ==
    {<<r.batch[n].user_id, r.batch[n].workshop_id>> : n \in DOMAIN r.batch}

\* The row of user_workshop for a pair.
RowOf(uw, pr) == uw[Min(PairRows(uw, pr[1], pr[2]))]

Handles(j) == job[j].pc \in {"send", "update"} /\ job'[j] # job[j]

ItemOf(j) == job[j].batch[job[j].i]

\* C14: a reminder job hands an email to the transport, and sets a flag,
\* only for a registration whose workshop start_time is later than the time
\* at which the job ran its selection; no batch holds a workshop that had
\* started by then.
C14_NoRetroactiveSend ==
    [][\A pr \in Pairs, k \in Kinds :
        (\/ outbox'[k][pr] # outbox[k][pr]
         \/ /\ PairRows(user_workshop, pr[1], pr[2]) # {}
            /\ Flag(k, RowOf(user_workshop', pr)) # Flag(k, RowOf(user_workshop, pr)))
        => \E j \in Jobs :
            /\ Handles(j) /\ job[j].kind = k
            /\ <<ItemOf(j).user_id, ItemOf(j).workshop_id>> = pr
            /\ workshops[pr[2]].start_time # NoTime
            /\ workshops[pr[2]].start_time > job[j].at]_vars

\* Both jobs have run: the workshop 15 minutes ahead got its 15-minute
\* reminder, the one that started an hour ago got no email and no flag.
C14_Witness ==
    /\ runs = 2
    /\ \A j \in Jobs : job[j].pc = "done" /\ job[j].success = "True"
    /\ job["j1"].kind = "1day" /\ job["j2"].kind = "15min"
    /\ workshops["W1"].start_time = 615
    /\ workshops["W2"].start_time = 540
    /\ RowOf(user_workshop, <<1, "W1">>).reminder_15min_sent
    /\ outbox["15min"][<<1, "W1">>] = 1
    /\ \A k \in Kinds :
        /\ outbox[k][<<2, "W2">>] = 0
        /\ ~Flag(k, RowOf(user_workshop, <<2, "W2">>))

\* C15: a job's flag update for a pair happens only after the transport
\* accepted the email of that job for that same pair; a flag changes to
\* true only in that update, and the update changes nothing but the flag of
\* the job's own kind on the row of that pair.
C15_FlagAfterSendSuccess ==
    /\ [](\A j \in Jobs :
            job[j].pc = "update"
            => outbox[job[j].kind][<<ItemOf(j).user_id, ItemOf(j).workshop_id>>] >= 1)
    /\ [][\/ user_workshop' = user_workshop
          \/ \E j \in Jobs :
                /\ job[j].pc = "update" /\ job'[j] # job[j]
                /\ outbox' = outbox
                /\ job'[j].emails_sent = job[j].emails_sent + 1
                /\ DOMAIN user_workshop' = DOMAIN user_workshop
                /\ \A n \in DOMAIN user_workshop :
                     IF user_workshop[n].user_id = ItemOf(j).user_id
                        /\ user_workshop[n].workshop_id = ItemOf(j).workshop_id
                       THEN IF job[j].kind = "1day"
                              THEN user_workshop'[n] =
                                     [user_workshop[n] EXCEPT !.reminder_1day_sent = TRUE]
                              ELSE user_workshop'[n] =
                                     [user_workshop[n] EXCEPT !.reminder_15min_sent = TRUE]
                       ELSE user_workshop'[n] = user_workshop[n]
      ]_vars

\* One 15-minute job over two eligible registrations: the first send
\* failed, the second was accepted; only the second pair's 15-minute flag
\* is set, and no 1-day flag.
C15_Witness ==
    \E j \in Jobs :
        /\ runs = 1
        /\ job[j].pc = "done" /\ job[j].kind = "15min"
        /\ job[j].emails_sent = 1 /\ job[j].failed_emails = 1
        /\ outbox["15min"][<<1, "W1">>] = 0
        /\ outbox["15min"][<<2, "W2">>] = 1
        /\ ~RowOf(user_workshop, <<1, "W1">>).reminder_15min_sent
        /\ RowOf(user_workshop, <<2, "W2">>).reminder_15min_sent
        /\ \A pr \in {<<1, "W1">>, <<2, "W2">>} :
            ~RowOf(user_workshop, pr).reminder_1day_sent

\* C16: when the transport reports a failure for an item, no flag changes,
\* failed_emails grows by one, and the job goes on to the next item of its
\* batch (it returns only after the last one, having counted every item);
\* and every invocation selects each registration whose flag is still
\* false and whose start_time is inside the window at that time, so a
\* failed item is selected again.
C16_SendFailureHandling ==
    [][\A j \in Jobs :
        /\ (job[j].pc = "send" /\ job'[j] # job[j] /\ job'[j].pc # "update")
            => /\ user_workshop' = user_workshop
               /\ outbox' = outbox
               /\ job'[j].failed_emails = job[j].failed_emails + 1
               /\ job'[j].emails_sent = job[j].emails_sent
               /\ IF job[j].i < Len(job[j].batch)
                    THEN /\ job'[j].pc = "send"
                         /\ job'[j].i = job[j].i + 1
                         /\ job'[j].batch = job[j].batch
                    ELSE job'[j].pc = "done" /\ job'[j].success = "True"
        /\ (job[j].pc \in {"send", "update"} /\ job'[j].pc = "done")
            => /\ job[j].i = Len(job[j].batch)
               /\ job'[j].emails_sent + job'[j].failed_emails = Len(job[j].batch)
        /\ \A k \in Kinds :
            get_workshops_for_reminder(j, k)
            => \A n \in DOMAIN user_workshop :
                (/\ ~Flag(k, user_workshop[n])
                 /\ HasStartTime(workshops[user_workshop[n].workshop_id])
                 /\ InWindow(k, now, workshops[user_workshop[n].workshop_id].start_time))
                => <<user_workshop[n].user_id, user_workshop[n].workshop_id>>
                      \in Selected(job'[j])
      ]_vars

\* The first invocation failed to send for (1, W1), went on and sent for
\* (2, W2); the next invocation of the same job holds (1, W1) again, its
\* flag still false.
C16_Witness ==
    \E j, q \in Jobs :
        /\ j # q /\ runs = 2
        /\ job[j].pc = "done" /\ job[j].success = "True"
        /\ job[j].emails_sent = 1 /\ job[j].failed_emails = 1
        /\ job[q].kind = job[j].kind
        /\ job[q].pc = "send" /\ job[q].at >= job[j].at
        /\ Selected(job[q]) = {<<1, "W1">>}
        /\ outbox[job[j].kind][<<1, "W1">>] = 0
        /\ outbox[job[j].kind][<<2, "W2">>] = 1
        /\ ~Flag(job[j].kind, RowOf(user_workshop, <<1, "W1">>))
        /\ Flag(job[j].kind, RowOf(user_workshop, <<2, "W2">>))

\* C17: with invocations of the 1-day job run one after the other, every
\* registration gets the 1-day email at most once, and once no invocation
\* is running every registration whose email was sent has its flag true.
C17_SentAtMostOnce ==
    \A pr \in Pairs :
        /\ outbox["1day"][pr] <= 1
        /\ (outbox["1day"][pr] >= 1 /\ \A j \in Jobs : job[j].pc \in {"idle", "done"})
            => RowOf(user_workshop, pr).reminder_1day_sent

\* C18: nothing guards a registration against overlapping invocations of a
\* job.  An invocation selects a registration whose flag is false and whose
\* start_time is in the window also while another invocation of the same
\* job holds it in its batch; an email the transport accepts is sent
\* whatever the store's flag says by then; and the flag update is
\* unconditional, counting the item as sent also when the flag is already
\* true.
C18_OverlapUnguarded ==
    [][\A j \in Jobs :
        /\ \A k \in Kinds :
            get_workshops_for_reminder(j, k)
            => \A q \in Jobs \ {j} :
                \A pr \in Selected(job[q]) :
                    (/\ job[q].kind = k
                     /\ ~Flag(k, RowOf(user_workshop, pr))
                     /\ InWindow(k, now, workshops[pr[2]].start_time))
                    => pr \in Selected(job'[j])
        /\ (job[j].pc = "send" /\ job'[j].pc = "update")
            => outbox' = [outbox EXCEPT
                            ![job[j].kind][<<ItemOf(j).user_id, ItemOf(j).workshop_id>>]
                                = @ + 1]
        /\ (job[j].pc = "update" /\ job'[j] # job[j]
                /\ Flag(job[j].kind,
                        RowOf(user_workshop, <<ItemOf(j).user_id, ItemOf(j).workshop_id>>)))
            => /\ user_workshop' = user_workshop
               /\ job'[j].emails_sent + job'[j].failed_emails
                    = job[j].emails_sent + job[j].failed_emails + 1
      ]_vars

\* Two overlapping invocations of the same job selected the same
\* registration while its flag was false, and the transport has accepted
\* the reminder from both: it was sent twice.
C18_Witness ==
    \E j, q \in Jobs :
        /\ j # q
        /\ job[j].kind = job[q].kind
        /\ job[j].pc = "update" /\ job[q].pc = "update"
        /\ ItemOf(j) = ItemOf(q)
        /\ ItemOf(j).user_id = 1 /\ ItemOf(j).workshop_id = "W1"
        /\ ~Flag(job[j].kind, RowOf(user_workshop, <<1, "W1">>))
        /\ outbox[job[j].kind][<<1, "W1">>] = 2

\* C19: while a registration row exists, a reminder flag that is true
\* stays true in every step of a registration, of identity resolution, of
\* a reminder job and of a workshop update; the only step that turns a
\* flag false is the admin's reminder-status update.
C19_FlagsMonotonic ==
    [][/\ \A n \in DOMAIN user_workshop, k \in Kinds :
            (/\ Flag(k, user_workshop[n])
             /\ n \in DOMAIN user_workshop'
             /\ user_workshop'[n].user_id = user_workshop[n].user_id
             /\ user_workshop'[n].workshop_id = user_workshop[n].workshop_id
             /\ ~Flag(k, user_workshop'[n]))
            => \E pr \in Pairs, body \in ReminderBodies :
                admin_update_reminder_status(pr[1], pr[2], body[1], body[2])
       /\ workshops' # workshops => user_workshop' = user_workshop
       /\ DOMAIN user_workshop \subseteq DOMAIN user_workshop'
      ]_vars

\* W1 was rescheduled further out after its 15-minute reminder went out and
\* the flag is still true; a registration was added since; and the admin
\* has reset the 1-day flag of (2, W2), whose reminder had been sent.
C19_Witness ==
    /\ Quiet
    /\ workshops["W1"].scheduled_at = 2940
    /\ outbox["15min"][<<1, "W1">>] = 1
    /\ RowOf(user_workshop, <<1, "W1">>).reminder_15min_sent
    /\ Len(user_workshop) = 3
    /\ pc["r1"] = "done" /\ resp["r1"].status = 200
    /\ outbox["1day"][<<2, "W2">>] = 1
    /\ job["j1"].kind = "1day" /\ job["j1"].emails_sent = 1
    /\ ~RowOf(user_workshop, <<2, "W2">>).reminder_1day_sent

\* C20: over profile updates, completion checks and admin soft-deletions
\* the completion bonus is added to a user's balance at most once: the
\* balance, which nothing else changes here, never exceeds one bonus.
C20_BonusAtMostOnce ==
    \A i \in DOMAIN users : users[i].points <= Bonus

\* The sum of the amounts of the first n awards of a history.
RECURSIVE SumAmounts(_, _)
SumAmounts(h, n) == IF n = 0 THEN 0 ELSE SumAmounts(h, n - 1) + h[n].amount

\* The awards of user u, in order.
AwardsOf(u) == SelectSeq(ledger, LAMBDA a : a.user_id = u)

\* C21: when point-changing calls on one user run one after another, the
\* stored balance is the initial balance (0, the column default) plus the
\* sum of the amounts added so far, and the new_total of each call is the
\* balance at that point (the sum of the amounts up to and including it).
C21_SequentialSum ==
    \A u \in DOMAIN users :
        LET h == AwardsOf(u) IN
          /\ users[u].points = SumAmounts(h, Len(h))
          /\ \A n \in DOMAIN h : h[n].new_total = SumAmounts(h, n)

\* Two increment_user_points calls with positive amounts have completed.
C21_Witness ==
    /\ \A p \in Procs : pc[p] \in {"idle", "done"}
    /\ \E m, n \in DOMAIN ledger :
        /\ m < n
        /\ ledger[m].source = "increment_user_points"
        /\ ledger[n].source = "increment_user_points"
        /\ ledger[m].amount > 0
        /\ users[ledger[n].user_id].points = ledger[n].new_total

\* C22: a point write stores the points the operation read earlier plus its
\* amount, not the row's points at the time of the write, so that with
\* interleaved operations the balance can fall short of (and never
\* exceeds) the sum of the amounts awarded.
C22_ReadThenWrite ==
    /\ [](\A u \in DOMAIN users :
            users[u].points <= SumAmounts(AwardsOf(u), Len(AwardsOf(u))))
    /\ [][\A p \in Procs :
            /\ update_points(p) =>
                 users'[req[p].user_id].points = cur[p].points + req[p].amount
            /\ award(p) =>
                 users'[cur[p].id].points = cur[p].points + Bonus]_vars

\* An increment and the profile-completion award interleaved, both
\* answered, and one of the two amounts is missing from the balance.
C22_Witness ==
    /\ \A p \in Procs : pc[p] \in {"idle", "done"}
    /\ \E m, n \in DOMAIN ledger :
        /\ ledger[m].source = "profile"
        /\ ledger[n].source = "increment_user_points"
        /\ ledger[m].user_id = ledger[n].user_id
        /\ Len(ledger) = 2
        /\ users[ledger[n].user_id].points < ledger[m].amount + ledger[n].amount

\* The awards of the submission bonus to user u.
SubmitAwards(u) ==
    {n \in DOMAIN ledger : ledger[n].source = "submit_assignment"
                           /\ ledger[n].user_id = u}

\* C23: over submit and grade calls on one assignment, interleaved or not,
\* the submission bonus is written to the user's points at most once.
C23_SubmitBonusOnce ==
    \A u \in DOMAIN users : Cardinality(SubmitAwards(u)) <= 1

\* The position of a status on the path pending, submitted, under_review,
\* reviewed | rejected.
Rank(st) ==
    CASE st = "pending" -> 0
      [] st = "submitted" -> 1
      [] st = "under_review" -> 2
      [] OTHER -> 3

\* C26: no step moves an assignment's status to an earlier status, nor out
\* of reviewed or rejected.
C26_StatusForwardOnly ==
    [][\A i \in DOMAIN assignments :
        /\ Rank(assignments'[i].status) >= Rank(assignments[i].status)
        /\ assignments[i].status \in {"reviewed", "rejected"}
             => assignments'[i].status = assignments[i].status]_vars

\* C27: no step of a GET /users/me/profile/status request changes the users
\* table, whatever the caller's row holds.
C27_StatusIsPureRead ==
    [][\A p \in Procs :
        (req[p].kind = "get_my_profile_completion_status" /\ Steps(p))
          => users' = users]_vars

\* A registration request that was answered with success.
Enrolled(p) ==
    /\ req[p].kind \in {"registered", "guest"}
    /\ pc[p] = "done"
    /\ resp[p].status = 200

C25_AssignmentFailureIsLogged ==
    /\ [](\A p \in Procs :
            (req[p].kind \in {"registered", "guest"} /\ pc[p] = "done"
             /\ exc[p] \in {"assignments store error", "unique violation assignments"})
              => resp[p].status = 200)
    /\ [][\A p \in Procs :
            /\ create_assignment_on_enroll_error(p)
                 => /\ user_workshop' = user_workshop
                    /\ resp'[p].status = 200
            /\ (Registered(p) /\ Steps(p))
                 => \A i \in DOMAIN user_workshop :
                       /\ i \in DOMAIN user_workshop'
                       /\ user_workshop'[i] = user_workshop[i]]_vars

\* A registration for W2 was inserted, its assignment creation failed, the
\* request answered success and the pair has no assignment.
C25_Witness ==
    \E p \in Procs :
        /\ Enrolled(p)
        /\ exc[p] = "assignments store error"
        /\ req[p].workshop = "W2"
        /\ PairRows(user_workshop, cur[p].id, "W2") # {}
        /\ PairRows(assignments, cur[p].id, "W2") = {}

\* C30: unregistering removes the pair's registration row and nothing else
\* (no other registration, no assignment, no user), and answers 404 without
\* a change when the pair has no row; a registration inserted afterwards has
\* both reminder flags false, and enrolling never touches an assignment row
\* that exists.
C30_UnregisterOnlyRegistration ==
    /\ [][\A p \in Procs :
            unregister_user_from_workshop(p)
              => /\ assignments' = assignments
                 /\ users' = users
                 /\ PairRows(user_workshop', cur[p].id, req[p].workshop) = {}
                 /\ \A i \in DOMAIN user_workshop :
                      \/ /\ user_workshop[i].user_id = cur[p].id
                         /\ user_workshop[i].workshop_id = req[p].workshop
                      \/ \E j \in DOMAIN user_workshop' :
                            user_workshop'[j] = user_workshop[i]
                 /\ PairRows(user_workshop, cur[p].id, req[p].workshop) = {}
                      => /\ resp'[p].status = 404
                         /\ user_workshop' = user_workshop]_vars
    /\ [][\A p \in Procs :
            /\ (register_insert(p) /\ user_workshop' # user_workshop)
                 => LET new == user_workshop'[Len(user_workshop')] IN
                      /\ ~new.reminder_1day_sent
                      /\ ~new.reminder_15min_sent
            /\ (assignment_check(p)
                /\ PairRows(assignments, cur[p].id, req[p].workshop) # {})
                 => /\ assignments' = assignments
                    /\ resp'[p].status = 200]_vars

\* After unregistering from W1 and registering again the 1-day reminder of
\* the pair went out a second time, and the reviewed assignment is as it was.
C30_Witness ==
    /\ outbox["1day"][<<1, "W1">>] = 2
    /\ PairRows(user_workshop, 1, "W1") # {}
    /\ Len(assignments) = 1
    /\ assignments[1].status = "reviewed"
    /\ assignments[1].marks = 5
    /\ assignments[1].feedback = "well done"

\* C28: a job invocation whose select succeeded counts every item of its
\* batch exactly once, as sent or as failed: inside the loop the counters
\* add up to the items done, at the return they add up to the batch, and
\* the return reports success whatever the items did.  emails_sent grows
\* only by one, at a flag update that was applied after an accepted send,
\* and every applied flag update is counted.
C28_JobSummary ==
    /\ [](\A j \in Jobs :
            job[j].pc \in {"send", "update"}
              => job[j].emails_sent + job[j].failed_emails = job[j].i - 1)
    /\ [][\A j \in Jobs :
            /\ (job[j].pc \in {"send", "update"} /\ job'[j].pc = "done")
                 => /\ job'[j].emails_sent + job'[j].failed_emails
                          = Len(job[j].batch)
                    /\ job'[j].success = "True"
            /\ (Handles(j) /\ job'[j].emails_sent # job[j].emails_sent)
                 => /\ job[j].pc = "update"
                    /\ job'[j].emails_sent = job[j].emails_sent + 1
                    /\ job'[j].failed_emails = job[j].failed_emails
                    /\ Flag(job[j].kind,
                            RowOf(user_workshop', <<ItemOf(j).user_id,
                                                    ItemOf(j).workshop_id>>))
            /\ (job[j].pc = "update" /\ job'[j] # job[j]
                /\ user_workshop' # user_workshop)
                 => job'[j].emails_sent = job[j].emails_sent + 1
            /\ (job[j].pc = "send" /\ job'[j] # job[j]
                /\ outbox' = outbox)
                 => job'[j].failed_emails = job[j].failed_emails + 1]_vars

\* A job returned success with one email sent and one failed.
C28_Witness ==
    \E j \in Jobs :
        /\ job[j].pc = "done"
        /\ job[j].success = "True"
        /\ job[j].emails_sent = 1
        /\ job[j].failed_emails = 1

\* C29: no step of a guest registration, failed or not, removes or changes
\* a users row; a guest row is inserted only for an email that has no row;
\* and after a guest registration failed with its guest resolved, the email
\* has exactly that one row, which a later request for the email (whose row
\* is still a guest's) is given.
C29_GuestRowSurvivesFailure ==
    /\ [](\A p \in Procs :
            (req[p].kind = "guest" /\ cur[p] # NoUser)
              => RowsByEmail(users, req[p].email) = {cur[p].id})
    /\ [][/\ \A i \in DOMAIN users :
                i \in DOMAIN users' /\ users'[i] = users[i]
          /\ users' # users =>
                /\ Len(users') = Len(users) + 1
                /\ RowsByEmail(users, users'[Len(users')].email) = {}
          /\ \A p \in Procs :
                (/\ check_existing_user_by_email(p)
                 /\ RowsByEmail(users, req[p].email) # {}
                 /\ FirstByEmail(users, req[p].email).role = "guest")
                  => cur'[p] = FirstByEmail(users, req[p].email)]_vars

\* One slot has handled two requests and the other none: the first created
\* the guest and failed at the registration insert, the retry with the same
\* email succeeded, and there is one users row and one registration.
C29_Witness ==
    /\ started = 2
    /\ Len(users) = 1
    /\ Len(user_workshop) = 1
    /\ \E p, q \in Procs :
        /\ pc[q] = "idle"
        /\ Enrolled(p)
        /\ req[p].kind = "guest"
        /\ cur[p] = users[1]
        /\ user_workshop[1].user_id = cur[p].id
====
